---- MODULE Spec2Model ----
(***************************************************************************)
(* FIRST / FOLLOW calculator of src/FF.py (class FirstFollowCalculator).    *)
(*                                                                         *)
(* A behaviour is one run of main(): parse_grammar reads a grammar file,   *)
(* calculate_all calls compute_first on every non-terminal (recursion is   *)
(* modelled with an explicit call stack) and then compute_follow iterates  *)
(* its passes until a pass changes nothing.                                *)
(***************************************************************************)
EXTENDS Naturals, Sequences, FiniteSets

VARIABLES
    file,          \* the grammar file: a sequence of lines, each line.split()
    pc,            \* "start" | "first" | "follow" | "done" | "crashed"
    error,         \* "none" | "IndexError" | "RecursionError"
    grammar,       \* self.grammar: lhs -> sequence of productions
    keys,          \* insertion order of the keys of self.grammar
    non_terminals, \* self.non_terminals
    terminals,     \* self.terminals
    start_symbol,  \* self.start_symbol
    first_sets,    \* self.first_sets: symbol -> set (memo)
    follow_sets,   \* self.follow_sets: defaultdict(set), keys created on access
    diag,          \* symbols for which the undefined-symbol message was printed
    remaining,     \* non-terminals calculate_all has not yet visited
    stack,         \* active compute_first frames, innermost last
    todo,          \* occurrences the current compute_follow pass has not yet visited
    changed,       \* the changed flag of compute_follow
    reordered      \* history: some loop left the order in which the file lists things

vars == <<file, pc, error, grammar, keys, non_terminals, terminals, start_symbol,
          first_sets, follow_sets, diag, remaining, stack, todo, changed, reordered>>

EPSILON == "ε"
END_MARKER == "$"
None == "<None>"
ARROW == "->"
BAR == "|"

(***************************************************************************)
(* Bounds of the model.                                                    *)
(***************************************************************************)
MaxBody == 2          \* longest production body of the generated grammar files
FairBody == 1         \* the same for the files of the specification with fairness
RecursionLimit == 7   \* depth at which the interpreter raises RecursionError

(***************************************************************************)
(* Grammar files.                                                          *)
(***************************************************************************)
CanonicalFile ==
    << <<"E", ARROW, "T", "E'">>,
       <<"E'", ARROW, "+", "T", "E'", BAR, EPSILON>>,
       <<"T", ARROW, "F", "T'">>,
       <<"T'", ARROW, "*", "F", "T'", BAR, EPSILON>>,
       <<"F", ARROW, "(", "E", ")", BAR, "id">> >>

LeftRecFile == << <<"A", ARROW, "A", "a", BAR, "b">> >>

HiddenCycleFile ==
    << <<"A", ARROW, "B", "C", BAR, "a">>,
       <<"B", ARROW, "B", "b", BAR, "b">>,
       <<"C", ARROW, "A", "c">> >>

EndMarkerFile == << <<"S", ARROW, "a", END_MARKER>> >>

CuratedFiles ==
    { CanonicalFile,
      LeftRecFile,
      HiddenCycleFile,
      EndMarkerFile,
      << <<"A", ARROW, "A", "a", BAR, EPSILON>> >>,
      << <<"S", ARROW, "a">> >>,
      << <<"S", ARROW, "B", "a">>, <<"B", ARROW>> >>,
      << <<"S", ARROW, "B", "A">>, <<"B", ARROW>>, <<"A", ARROW, "a", BAR, "B">> >>,
      << <<"S", "a">>, <<"A", ARROW, "S", "b">> >>,
      << <<"S">>, <<"S", ARROW, "a">> >>,
      << <<>>, <<"S", ARROW, "a", BAR, BAR, "b", BAR>>, <<>> >>,
      << >>,
      << <<"S", ARROW, "a">>, <<"T", ARROW, "b">> >>,
      << <<EPSILON, ARROW, "a">>, <<"S", ARROW, EPSILON, "b">> >>,
      << <<"S", ARROW, "A", "B", "c">>, <<"A", ARROW, "a", BAR, EPSILON>>,
         <<"B", ARROW, "b", BAR, EPSILON>> >>,
      << <<"S", ARROW, "A", "a">>, <<"A", ARROW, "S", "b", BAR, "c">> >>,
      << <<"S", ARROW, "A", "S", BAR, "b">>, <<"A", ARROW, EPSILON>> >>,
      << <<"S", ARROW, "B", "A">>, <<"B", ARROW>>, <<"A", ARROW, "C">>,
         <<"C", ARROW, "A">> >> }

BodyTokens == {"A", "B", "a", EPSILON}

RECURSIVE SeqsUpTo(_, _)
SeqsUpTo(S, n) ==
    IF n = 0 THEN { <<>> }
    ELSE LET shorter == SeqsUpTo(S, n - 1)
         IN  shorter \cup { Append(s, x) : s \in shorter, x \in S }

\* the two-line files whose right-hand sides have at most n tokens
GeneratedFiles(n) ==
    { << <<"A", ARROW>> \o b1, <<l2, ARROW>> \o b2 >> :
          b1 \in SeqsUpTo(BodyTokens, n), b2 \in SeqsUpTo(BodyTokens, n), l2 \in {"A", "B"} }

Files == CuratedFiles \cup GeneratedFiles(MaxBody)

FairFiles == CuratedFiles \cup GeneratedFiles(FairBody)

(***************************************************************************)
(* parse_grammar                                                           *)
(***************************************************************************)
\* lines 43-53: split the tokens after the arrow at "|", dropping empty alternatives
RECURSIVE SplitProductions(_, _, _)
SplitProductions(tokens, current_production, acc) ==
    IF tokens = <<>>
    THEN IF current_production # <<>> THEN Append(acc, current_production) ELSE acc
    ELSE IF Head(tokens) = BAR
         THEN SplitProductions(Tail(tokens), <<>>,
                  IF current_production # <<>> THEN Append(acc, current_production) ELSE acc)
         ELSE SplitProductions(Tail(tokens), Append(current_production, Head(tokens)), acc)

\* self.grammar[lhs].append(p) for every p of prods, in order
AppendProductions(g, lhs, prods) ==
    [k \in DOMAIN g \cup {lhs} |->
        IF k = lhs THEN (IF lhs \in DOMAIN g THEN g[lhs] ELSE <<>>) \o prods ELSE g[k]]

ParseInit ==
    [start |-> None, first_line |-> TRUE, nts |-> {}, g |-> <<>>, order |-> <<>>,
     err |-> "none"]

\* lines 25-53: the body of the loop over the lines, for one line
ParseLine(st, tokens) ==
    IF st.err # "none" \/ tokens = <<>> THEN st
    ELSE LET lhs == tokens[1]
             st1 == IF st.first_line
                    THEN [st EXCEPT !.start = lhs, !.first_line = FALSE]
                    ELSE st
         IN  IF Len(tokens) < 2 THEN [st1 EXCEPT !.err = "IndexError"]
             ELSE IF tokens[2] # ARROW THEN st1
             ELSE LET prods == SplitProductions(SubSeq(tokens, 3, Len(tokens)), <<>>, <<>>)
                  IN  IF prods = <<>>
                      THEN [st1 EXCEPT !.nts = @ \cup {lhs}]
                      ELSE [st1 EXCEPT !.nts = @ \cup {lhs},
                                       !.g = AppendProductions(@, lhs, prods),
                                       !.order = IF lhs \in DOMAIN st1.g THEN @
                                                 ELSE Append(@, lhs)]

RECURSIVE ParseLines(_, _)
ParseLines(st, lines) ==
    IF lines = <<>> THEN st ELSE ParseLines(ParseLine(st, Head(lines)), Tail(lines))

\* lines 56-60
AllSymbols(g) ==
    UNION { UNION { { g[lhs][p][i] : i \in DOMAIN g[lhs][p] } : p \in DOMAIN g[lhs] } :
            lhs \in DOMAIN g }

\* lines 62-63
DetectTerminals(g, nts) ==
    { sym \in AllSymbols(g) : sym \notin nts /\ sym # EPSILON }

\* lines 70-71: next(iter(self.non_terminals)) yields an arbitrary member
StartChoices(st) ==
    IF st.start = None /\ st.nts # {} THEN st.nts ELSE {st.start}

\* __init__ (lines 5-13), with the file main() is about to read
InitFrom(files) ==
    /\ file \in files
    /\ pc = "start"
    /\ error = "none"
    /\ grammar = <<>>
    /\ keys = <<>>
    /\ non_terminals = {}
    /\ terminals = {}
    /\ start_symbol = None
    /\ first_sets = <<>>
    /\ follow_sets = <<>>
    /\ diag = {}
    /\ remaining = {}
    /\ stack = <<>>
    /\ todo = {}
    /\ changed = FALSE
    /\ reordered = FALSE

Init == InitFrom(Files)

FairInit == InitFrom(FairFiles)

ParseGrammar ==
    /\ pc = "start"
    /\ LET st == ParseLines(ParseInit, file)
       IN  IF st.err # "none"
           THEN /\ pc' = "crashed"
                /\ error' = st.err
                /\ start_symbol' = st.start
                /\ non_terminals' = st.nts
                /\ grammar' = st.g
                /\ keys' = st.order
                /\ UNCHANGED <<terminals, remaining>>
           ELSE /\ pc' = "first"
                /\ error' = "none"
                /\ grammar' = st.g
                /\ keys' = st.order
                /\ non_terminals' = st.nts
                /\ terminals' = DetectTerminals(st.g, st.nts)
                /\ start_symbol' \in StartChoices(st)
                /\ remaining' = st.nts
    /\ UNCHANGED <<file, first_sets, follow_sets, diag, stack, todo, changed, reordered>>

(***************************************************************************)
(* compute_first, with the recursion made explicit as a stack of frames.   *)
(* A frame is the loop position of one active call: production p, symbol i.*)
(***************************************************************************)
\* self.first_sets[sym] = val
Memo(fs, sym, val) ==
    [k \in DOMAIN fs \cup {sym} |-> IF k = sym THEN val ELSE fs[k]]

\* a slip that would record EPSILON for a symbol without productions
UndefinedFirstNullable == {EPSILON}

\* line 78 and lines 87-90: the result recorded for a symbol without productions
UndefinedFirst == {}

\* lines 75-90: the call returns before the loop over the productions
Immediate(fs, sym) ==
    \/ sym \in DOMAIN fs
    \/ sym \in terminals \/ sym = EPSILON
    \/ sym \notin DOMAIN grammar

\* lines 87-88: the call prints the undefined-symbol message
IsUndefinedCall(fs, sym) ==
    /\ sym \notin DOMAIN fs
    /\ ~(sym \in terminals \/ sym = EPSILON)
    /\ sym \notin DOMAIN grammar

\* lines 75-90: the value such a call returns
ImmediateValue(fs, sym) ==
    IF sym \in DOMAIN fs THEN fs[sym]
    ELSE IF sym \in terminals \/ sym = EPSILON THEN {sym}
    ELSE UndefinedFirst

\* lines 83, 89: what such a call leaves in first_sets
ImmediateMemo(fs, sym) ==
    IF sym \in DOMAIN fs THEN fs ELSE Memo(fs, sym, ImmediateValue(fs, sym))

\* lines 93-97: productions that are empty lists add EPSILON and are passed over
RECURSIVE SkipEmpty(_)
SkipEmpty(f) ==
    IF f.p <= Len(grammar[f.symbol]) /\ grammar[f.symbol][f.p] = <<>>
    THEN SkipEmpty([f EXCEPT !.result = @ \cup {EPSILON}, !.p = @ + 1])
    ELSE f

\* lines 78, 93, 99: a call that enters the loop over the productions
NewFrame(symbol) ==
    SkipEmpty([symbol |-> symbol, p |-> 1, i |-> 1, result |-> {}, add_epsilon |-> TRUE])

\* lines 121-122, then the next production (line 99)
EndProduction(f) ==
    SkipEmpty([f EXCEPT !.result = IF f.add_epsilon THEN @ \cup {EPSILON} ELSE @,
                        !.p = @ + 1, !.i = 1, !.add_epsilon = TRUE])

\* lines 110-118: the caller takes the FIRST set of the symbol it asked for
Absorb(f, first_of_sym) ==
    LET g == [f EXCEPT !.result = @ \cup (first_of_sym \ {EPSILON})]
    IN  IF EPSILON \notin first_of_sym
        THEN EndProduction([g EXCEPT !.add_epsilon = FALSE])
        ELSE IF f.i < Len(grammar[f.symbol][f.p])
             THEN [g EXCEPT !.i = @ + 1]
             ELSE EndProduction(g)

Top == stack[Len(stack)]
SetTop(f) == [stack EXCEPT ![Len(stack)] = f]
Scanning == /\ pc = "first" /\ stack # <<>> /\ Top.p <= Len(grammar[Top.symbol])
CurrentSym == grammar[Top.symbol][Top.p][Top.i]

\* position of the line that first declares nt (the order the file lists them in)
Rank(nt) ==
    LET ls == { n \in DOMAIN file : /\ Len(file[n]) >= 2
                                    /\ file[n][1] = nt /\ file[n][2] = ARROW }
    IN  CHOOSE n \in ls : \A m \in ls : n <= m

\* lines 196-197: the loop of calculate_all takes the next non-terminal of the set
CalculateAll ==
    /\ pc = "first" /\ stack = <<>> /\ remaining # {}
    /\ \E nt \in remaining :
        /\ remaining' = remaining \ {nt}
        /\ reordered' = (reordered \/ \E m \in remaining : Rank(m) < Rank(nt))
        /\ IF Immediate(first_sets, nt)
           THEN /\ first_sets' = ImmediateMemo(first_sets, nt)
                /\ diag' = IF IsUndefinedCall(first_sets, nt) THEN diag \cup {nt} ELSE diag
                /\ stack' = stack
           ELSE /\ stack' = <<NewFrame(nt)>>
                /\ UNCHANGED <<first_sets, diag>>
    /\ UNCHANGED <<file, pc, error, grammar, keys, non_terminals, terminals, start_symbol,
                   follow_sets, todo, changed>>

\* lines 104-105: the symbol is the one being computed, the scan of the production stops
FirstSelfGuard ==
    /\ Scanning
    /\ CurrentSym = Top.symbol
    /\ stack' = SetTop(EndProduction(Top))
    /\ UNCHANGED <<file, pc, error, grammar, keys, non_terminals, terminals, start_symbol,
                   first_sets, follow_sets, diag, remaining, todo, changed, reordered>>

\* line 108 with a callee that returns at once (lines 75-90), then lines 110-118
FirstImmediate ==
    /\ Scanning
    /\ CurrentSym # Top.symbol
    /\ Immediate(first_sets, CurrentSym)
    /\ first_sets' = ImmediateMemo(first_sets, CurrentSym)
    /\ diag' = IF IsUndefinedCall(first_sets, CurrentSym) THEN diag \cup {CurrentSym} ELSE diag
    /\ stack' = SetTop(Absorb(Top, ImmediateValue(first_sets, CurrentSym)))
    /\ UNCHANGED <<file, pc, error, grammar, keys, non_terminals, terminals, start_symbol,
                   follow_sets, remaining, todo, changed, reordered>>

\* line 108 with a callee that has productions and no memo entry: a new frame
FirstCall ==
    /\ Scanning
    /\ CurrentSym # Top.symbol
    /\ ~Immediate(first_sets, CurrentSym)
    /\ Len(stack) < RecursionLimit
    /\ stack' = Append(stack, NewFrame(CurrentSym))
    /\ UNCHANGED <<file, pc, error, grammar, keys, non_terminals, terminals, start_symbol,
                   first_sets, follow_sets, diag, remaining, todo, changed, reordered>>

\* line 108 when the interpreter's recursion limit is reached: uncaught RecursionError
FirstRecursionError ==
    /\ Scanning
    /\ CurrentSym # Top.symbol
    /\ ~Immediate(first_sets, CurrentSym)
    /\ Len(stack) >= RecursionLimit
    /\ pc' = "crashed"
    /\ error' = "RecursionError"
    /\ UNCHANGED <<file, grammar, keys, non_terminals, terminals, start_symbol, first_sets,
                   follow_sets, diag, remaining, stack, todo, changed, reordered>>

\* lines 124-125, and in the caller lines 110-118
FirstReturn ==
    /\ pc = "first" /\ stack # <<>>
    /\ Top.p > Len(grammar[Top.symbol])
    /\ first_sets' = Memo(first_sets, Top.symbol, Top.result)
    /\ LET callers == SubSeq(stack, 1, Len(stack) - 1)
       IN  stack' = IF callers = <<>> THEN <<>>
                    ELSE [callers EXCEPT ![Len(callers)] = Absorb(@, Top.result)]
    /\ UNCHANGED <<file, pc, error, grammar, keys, non_terminals, terminals, start_symbol,
                   follow_sets, diag, remaining, todo, changed, reordered>>

(***************************************************************************)
(* first_of_sequence and compute_follow.  By the time compute_follow runs,  *)
(* every non-terminal has a memo entry, so each compute_first call made by *)
(* first_of_sequence returns at once (AllCallsImmediate below checks it).  *)
(***************************************************************************)
\* lines 132-146, from 1-based position i of sequence on, result collected so far
RECURSIVE FirstOfSequenceFrom(_, _, _, _)
FirstOfSequenceFrom(fs, sequence, i, result) ==
    IF i > Len(sequence)
    THEN [result |-> result \cup {EPSILON}, fs |-> fs]
    ELSE LET first_of_sym == ImmediateValue(fs, sequence[i])
             fs1 == ImmediateMemo(fs, sequence[i])
             result1 == result \cup (first_of_sym \ {EPSILON})
         IN  IF EPSILON \notin first_of_sym
             THEN [result |-> result1, fs |-> fs1]
             ELSE FirstOfSequenceFrom(fs1, sequence, i + 1, result1)

\* lines 127-148: the set returned and the memo the calls leave behind
first_of_sequence(fs, sequence, start) == FirstOfSequenceFrom(fs, sequence, start, {})

\* self.follow_sets[k] read through the defaultdict
Get(F, k) == IF k \in DOMAIN F THEN F[k] ELSE {}

\* self.follow_sets[k] made to hold val (the key is created if it was missing)
Put(F, k, val) == [x \in DOMAIN F \cup {k} |-> IF x = k THEN val ELSE F[x]]

\* a slip that would touch FOLLOW(start) without adding the end marker
SeedNothing(F, start) == Put(F, start, Get(F, start))

\* line 153
SeedFollow(F, start) == Put(F, start, Get(F, start) \cup {END_MARKER})

\* a slip that would drop the test of line 174
Rule2KeepAll(first_beta) == first_beta

\* lines 173-175: the part of first_beta that is added to FOLLOW(symbol)
Rule2(first_beta) == first_beta \ {EPSILON}

\* a slip that would assign instead of update
UpdateAssign(target, source) == source

\* a slip that would keep the end marker from being propagated
UpdateNoMarker(target, source) == target \cup (source \ {END_MARKER})

\* lines 180, 189: set.update
Update(target, source) == target \cup source

\* a slip that would miss a growth by a single element
GrewByTwo(old_size, set) == Cardinality(set) > old_size + 1

\* a slip that would never set changed, so that compute_follow makes one pass
GrewNever(old_size, set) == FALSE

\* lines 181, 184, 190: the size test that sets changed
Grew(old_size, set) == Cardinality(set) > old_size

\* lines 160-165: the occurrences of non-terminals in production bodies; the
\* other positions are passed over by the continue of line 165
Occurrences ==
    { t \in UNION { UNION { { <<lhs, p, i>> : i \in DOMAIN grammar[lhs][p] } :
                            p \in DOMAIN grammar[lhs] } : lhs \in DOMAIN grammar } :
        grammar[t[1]][t[2]][t[3]] \in non_terminals }

KeyIndex(lhs) == CHOOSE n \in DOMAIN keys : keys[n] = lhs

\* t1 comes before t2 in the nested loops of lines 160-162
Before(t1, t2) ==
    \/ KeyIndex(t1[1]) < KeyIndex(t2[1])
    \/ t1[1] = t2[1] /\ t1[2] < t2[2]
    \/ t1[1] = t2[1] /\ t1[2] = t2[2] /\ t1[3] < t2[3]

\* lines 166-191: the loop body for the occurrence at position i of production
\* prod of lhs; yields the new follow_sets, first_sets and whether changed is set
VisitOccurrence(F, fs, lhs, prod, i) ==
    LET symbol == prod[i]
    IN  IF i < Len(prod)
        THEN LET fb == first_of_sequence(fs, prod, i + 1)
                 first_beta == fb.result
                 old_size == Cardinality(Get(F, symbol))
                 F1 == Put(F, symbol, Update(Get(F, symbol), Rule2(first_beta)))
             IN  IF EPSILON \in first_beta
                 THEN LET old_follow_size == Cardinality(Get(F1, symbol))
                          Fl == Put(F1, lhs, Get(F1, lhs))
                          F2 == Put(Fl, symbol, Update(Get(Fl, symbol), Get(Fl, lhs)))
                      IN  [F |-> F2, fs |-> fb.fs,
                           changed |-> \/ Grew(old_follow_size, Get(F2, symbol))
                                       \/ Grew(old_size, Get(F2, symbol))]
                 ELSE [F |-> F1, fs |-> fb.fs,
                       changed |-> Grew(old_size, Get(F1, symbol))]
        ELSE LET old_size == Cardinality(Get(F, symbol))
                 Fl == Put(Put(F, symbol, Get(F, symbol)), lhs, Get(F, lhs))
                 F2 == Put(Fl, symbol, Update(Get(Fl, symbol), Get(Fl, lhs)))
             IN  [F |-> F2, fs |-> fs, changed |-> Grew(old_size, Get(F2, symbol))]

\* lines 198-200 and 153-157: calculate_all's loop is over, compute_follow seeds the
\* start symbol and enters its first pass
ComputeFollowSeed ==
    /\ pc = "first" /\ stack = <<>> /\ remaining = {}
    /\ pc' = "follow"
    /\ follow_sets' = SeedFollow(follow_sets, start_symbol)
    /\ todo' = Occurrences
    /\ changed' = FALSE
    /\ UNCHANGED <<file, error, grammar, keys, non_terminals, terminals, start_symbol,
                   first_sets, diag, remaining, stack, reordered>>

\* lines 160-191: one occurrence of the pass.  The file fixes the order of the
\* nested loops; the model lets the pass take its occurrences in any order.
FollowVisit ==
    /\ pc = "follow"
    /\ \E t \in todo :
        LET r == VisitOccurrence(follow_sets, first_sets, t[1], grammar[t[1]][t[2]], t[3])
        IN  /\ follow_sets' = r.F
            /\ first_sets' = r.fs
            /\ changed' = (changed \/ r.changed)
            /\ todo' = todo \ {t}
            /\ reordered' = (reordered \/ \E u \in todo : Before(u, t))
    /\ UNCHANGED <<file, pc, error, grammar, keys, non_terminals, terminals, start_symbol,
                   diag, remaining, stack>>

\* lines 156-157: the pass changed something, another pass starts
FollowNextPass ==
    /\ pc = "follow" /\ todo = {} /\ changed
    /\ todo' = Occurrences
    /\ changed' = FALSE
    /\ UNCHANGED <<file, pc, error, grammar, keys, non_terminals, terminals, start_symbol,
                   first_sets, follow_sets, diag, remaining, stack, reordered>>

\* line 156: the pass changed nothing, compute_follow and calculate_all return
ComputeFollowReturn ==
    /\ pc = "follow" /\ todo = {} /\ ~changed
    /\ pc' = "done"
    /\ UNCHANGED <<file, error, grammar, keys, non_terminals, terminals, start_symbol,
                   first_sets, follow_sets, diag, remaining, stack, todo, changed, reordered>>

Next ==
    \/ ParseGrammar
    \/ CalculateAll
    \/ FirstSelfGuard
    \/ FirstImmediate
    \/ FirstCall
    \/ FirstRecursionError
    \/ FirstReturn
    \/ ComputeFollowSeed
    \/ FollowVisit
    \/ FollowNextPass
    \/ ComputeFollowReturn

Spec == Init /\ [][Next]_vars

\* compute_follow always reaches its return: a run of the program keeps executing
FairSpec == FairInit /\ [][Next]_vars /\ WF_vars(Next)

\* Sanity: during compute_follow no compute_first call has to scan productions
AllCallsImmediate ==
    pc \in {"follow", "done"} =>
        \A sym \in AllSymbols(grammar) : Immediate(first_sets, sym)

(***************************************************************************)
(* Reference definitions used by the properties: the textbook FIRST sets   *)
(* (least solution of the FIRST equations) and the left-corner relation.   *)
(***************************************************************************)
RECURSIVE Lfp(_, _)
Lfp(Step(_), F) == LET G == Step(F) IN IF G = F THEN F ELSE Lfp(Step, G)

\* FIRST of one symbol under the assignment F of sets to non-terminals
DerivedValue(F, X) ==
    IF X = EPSILON THEN {EPSILON} ELSE IF X \in non_terminals THEN F[X] ELSE {X}

RECURSIVE DerivedSeq(_, _, _)
DerivedSeq(F, seq, i) ==
    IF i > Len(seq) THEN {EPSILON}
    ELSE LET v == DerivedValue(F, seq[i])
         IN  IF EPSILON \in v THEN (v \ {EPSILON}) \cup DerivedSeq(F, seq, i + 1) ELSE v

DerivedStep(F) ==
    [A \in non_terminals |->
        IF A \in DOMAIN grammar
        THEN UNION { DerivedSeq(F, grammar[A][p], 1) : p \in DOMAIN grammar[A] }
        ELSE {}]

\* the terminals that can begin a string derived from A, plus EPSILON iff A
\* derives the empty string
DerivedFirst == Lfp(DerivedStep, [A \in non_terminals |-> {}])

\* the non-terminals X such that A -> X1 .. Xn has X = Xi with X1 .. Xi-1 all
\* deriving the empty string
LeftCorners(A) ==
    IF A \notin DOMAIN grammar THEN {}
    ELSE { X \in non_terminals :
            \E p \in DOMAIN grammar[A] : \E i \in DOMAIN grammar[A][p] :
                /\ grammar[A][p][i] = X
                /\ \A j \in 1..(i - 1) :
                      EPSILON \in DerivedValue(DerivedFirst, grammar[A][p][j]) }

ReachStep(R) == [A \in non_terminals |-> R[A] \cup UNION { R[X] : X \in R[A] }]

\* B \in BeginsWith[A]: A derives a sentential form that begins with B
BeginsWith == Lfp(ReachStep, [A \in non_terminals |-> LeftCorners(A)])

IndirectLeftRecursion ==
    \E A \in non_terminals : \E B \in non_terminals :
        A # B /\ B \in BeginsWith[A] /\ A \in BeginsWith[B]

Reentered == \E m \in DOMAIN stack : \E n \in DOMAIN stack :
                 m < n /\ stack[m].symbol = stack[n].symbol

(***************************************************************************)
(* Properties.                                                             *)
(***************************************************************************)
\* C1: when calculate_all has returned, first_sets[A] of every non-terminal A is
\* exactly the set of terminals that can begin a string derived from A, plus
\* EPSILON iff A derives the empty string (direct left recursion included); on
\* the expression grammar FIRST(E) = FIRST(T) = FIRST(F) = {(, id},
\* FIRST(E') = {+, EPSILON}, FIRST(T') = {*, EPSILON}.
FirstIsDerivedFirst ==
    pc = "done" =>
        /\ \A A \in non_terminals : A \in DOMAIN first_sets /\ first_sets[A] = DerivedFirst[A]
        /\ file = CanonicalFile =>
              /\ first_sets["E"] = {"(", "id"}
              /\ first_sets["T"] = {"(", "id"}
              /\ first_sets["F"] = {"(", "id"}
              /\ first_sets["E'"] = {"+", EPSILON}
              /\ first_sets["T'"] = {"*", EPSILON}

\* C9: once the grammar is read, the terminals are disjoint from the
\* non-terminals and contain neither EPSILON nor END_MARKER, also when a
\* production body mentions END_MARKER.
SymbolClassesDisjoint ==
    pc \in {"first", "follow", "done"} =>
        /\ terminals \cap non_terminals = {}
        /\ EPSILON \notin terminals
        /\ END_MARKER \notin terminals

\* C10: on a grammar without indirect left recursion compute_first is never
\* invoked on a symbol whose evaluation is still in progress, the recursion
\* depth stays within the number of grammar symbols, and no call fails to return.
NoReentryWithoutIndirectRecursion ==
    (pc \in {"first", "crashed"} /\ error # "IndexError" /\ ~IndirectLeftRecursion) =>
        /\ ~Reentered
        /\ Len(stack) <= Cardinality(non_terminals \cup terminals \cup {EPSILON})
        /\ error # "RecursionError"

(***************************************************************************)
(* FOLLOW as the least solution of its constraints over first_of_sequence. *)
(***************************************************************************)
FollowKeys == non_terminals \cup {start_symbol}

OccurrencesOf(B) == { t \in Occurrences : grammar[t[1]][t[2]][t[3]] = B }

\* first_of_sequence of what follows the occurrence t in its production
Beta(t) == first_of_sequence(first_sets, grammar[t[1]][t[2]], t[3] + 1).result

FollowStep(F) ==
    [B \in FollowKeys |->
        (IF B = start_symbol THEN {END_MARKER} ELSE {})
        \cup UNION { (Beta(t) \ {EPSILON}) \cup (IF EPSILON \in Beta(t) THEN F[t[1]] ELSE {}) :
                     t \in OccurrencesOf(B) }]

LeastFollow == Lfp(FollowStep, [B \in FollowKeys |-> {}])

\* C2: when compute_follow returns, follow_sets is the least family with
\* END_MARKER in FOLLOW(start_symbol) and, for every A -> alpha B beta,
\* first_of_sequence(beta) minus EPSILON in FOLLOW(B) and FOLLOW(A) in FOLLOW(B)
\* when beta is empty or EPSILON is in first_of_sequence(beta); on the expression
\* grammar FOLLOW(E) = FOLLOW(E') = {), $}, FOLLOW(T) = FOLLOW(T') = {+, ), $},
\* FOLLOW(F) = {+, *, ), $}.
FollowIsLeastSolution ==
    pc = "done" =>
        /\ DOMAIN follow_sets \subseteq FollowKeys
        /\ \A B \in FollowKeys : Get(follow_sets, B) = LeastFollow[B]
        /\ file = CanonicalFile =>
              /\ follow_sets["E"] = {")", END_MARKER}
              /\ follow_sets["E'"] = {")", END_MARKER}
              /\ follow_sets["T"] = {"+", ")", END_MARKER}
              /\ follow_sets["T'"] = {"+", ")", END_MARKER}
              /\ follow_sets["F"] = {"+", "*", ")", END_MARKER}

FollowOfExpressionGrammarDone ==
    /\ pc = "done" /\ file = CanonicalFile
    /\ Get(follow_sets, "F") = {"+", "*", ")", END_MARKER}

\* a further pass over every occurrence leaves every FOLLOW set as it is
OneMorePassChangesNothing ==
    \A t \in Occurrences :
        LET r == VisitOccurrence(follow_sets, first_sets, t[1], grammar[t[1]][t[2]], t[3])
        IN  \A k \in DOMAIN r.F : r.F[k] = Get(follow_sets, k)

\* C3: compute_follow terminates once the FIRST sets are computed, and when it
\* has returned one more pass over every production would change nothing.
FollowTerminatesStable ==
    /\ (pc = "follow") ~> (pc = "done")
    /\ [](pc = "done" => OneMorePassChangesNothing)

FollowPropagatedAndReturned ==
    /\ pc = "done"
    /\ \E B \in non_terminals : B # start_symbol /\ END_MARKER \in Get(follow_sets, B)

(***************************************************************************)
(* The result as a function of the grammar alone: the solution of the      *)
(* equations compute_first evaluates, and the FOLLOW constraints over it.   *)
(***************************************************************************)
GrammarValue(F, X) ==
    IF X \in terminals \/ X = EPSILON THEN {X}
    ELSE IF X \notin DOMAIN grammar THEN {}
    ELSE F[X]

\* the set a left-to-right scan of prod from position i yields; the scan of a
\* production of A stops at A itself
RECURSIVE GrammarScan(_, _, _, _)
GrammarScan(F, A, prod, i) ==
    IF i > Len(prod) \/ prod[i] = A THEN {EPSILON}
    ELSE LET v == GrammarValue(F, prod[i])
         IN  IF EPSILON \in v THEN (v \ {EPSILON}) \cup GrammarScan(F, A, prod, i + 1) ELSE v

\* the symbols such a scan asks the FIRST set of
RECURSIVE ScanAsks(_, _, _, _)
ScanAsks(F, A, prod, i) ==
    IF i > Len(prod) \/ prod[i] = A THEN {}
    ELSE {prod[i]} \cup (IF EPSILON \in GrammarValue(F, prod[i])
                         THEN ScanAsks(F, A, prod, i + 1) ELSE {})

GrammarStep(F) ==
    [A \in DOMAIN grammar |->
        UNION { GrammarScan(F, A, grammar[A][p], 1) : p \in DOMAIN grammar[A] }]

GrammarFirst == Lfp(GrammarStep, [A \in DOMAIN grammar |-> {}])

ExpectedFirst ==
    LET GF == GrammarFirst
        asked == UNION { UNION { ScanAsks(GF, A, grammar[A][p], 1) : p \in DOMAIN grammar[A] } :
                         A \in DOMAIN grammar \ {EPSILON} }
                 \cup UNION { ScanAsks(GF, None, grammar[t[1]][t[2]], t[3] + 1) :
                              t \in Occurrences }
    IN  [k \in non_terminals \cup asked |-> GrammarValue(GF, k)]

ExpectedFollow ==
    LET GF == GrammarFirst
        beta(t) == GrammarScan(GF, None, grammar[t[1]][t[2]], t[3] + 1)
        K == {start_symbol}
             \cup { grammar[t[1]][t[2]][t[3]] : t \in Occurrences }
             \cup { t[1] : t \in { u \in Occurrences : EPSILON \in beta(u) } }
        step(F) ==
            [B \in K |->
                (IF B = start_symbol THEN {END_MARKER} ELSE {})
                \cup UNION { (beta(t) \ {EPSILON})
                             \cup (IF EPSILON \in beta(t) THEN F[t[1]] ELSE {}) :
                             t \in OccurrencesOf(B) }]
    IN  Lfp(step, [B \in K |-> {}])

\* C4: whatever order calculate_all visits the non-terminals in and whatever
\* order a pass of compute_follow visits the occurrences in, the final
\* first_sets and follow_sets are the same mappings, fixed by the grammar.
ResultFixedByGrammar ==
    pc = "done" => first_sets = ExpectedFirst /\ follow_sets = ExpectedFollow

DoneAfterOtherOrder ==
    /\ pc = "done" /\ reordered
    /\ Cardinality(non_terminals) >= 2 /\ Cardinality(Occurrences) >= 2

\* C5: no FOLLOW set contains EPSILON, in any state during or after compute_follow.
NoEpsilonInFollow ==
    \A A \in DOMAIN follow_sets : EPSILON \notin follow_sets[A]

NullableSuffixVisited ==
    /\ pc = "done"
    /\ \E t \in Occurrences : t[3] < Len(grammar[t[1]][t[2]]) /\ EPSILON \in Beta(t)

\* C6: every step of compute_follow leaves every FOLLOW set at least as large
\* as it was: no key is dropped and no element is removed.
FollowOnlyGrows ==
    [][\A A \in DOMAIN follow_sets :
          A \in DOMAIN follow_sets' /\ follow_sets[A] \subseteq follow_sets'[A]]_vars

FollowGrewInPass ==
    /\ pc = "follow" /\ changed
    /\ \E A \in DOMAIN follow_sets : Cardinality(follow_sets[A]) >= 2

\* the first token of the first non-blank line of the file
RECURSIVE FirstLhs(_)
FirstLhs(lines) ==
    IF lines = <<>> THEN None
    ELSE IF Head(lines) = <<>> THEN FirstLhs(Tail(lines))
    ELSE Head(lines)[1]

\* C8: from the seeding step of compute_follow on, END_MARKER is in
\* follow_sets[start_symbol], start_symbol being the left-hand side of the first
\* grammar line.
EndMarkerSeeded ==
    pc \in {"follow", "done"} =>
        /\ start_symbol = FirstLhs(file)
        /\ start_symbol \in DOMAIN follow_sets
        /\ END_MARKER \in follow_sets[start_symbol]

TrivialGrammarDone ==
    /\ pc = "done" /\ file = << <<"S", ARROW, "a">> >>
    /\ follow_sets = [k \in {"S"} |-> {END_MARKER}]

Undeclared == non_terminals \ DOMAIN grammar

====
